---- MODULE Spec2Model ----
(***************************************************************************)
(* The release plugins of src/autopub_bun/__init__.py: BunPlugin and       *)
(* UvMonorepoPlugin, driven through the four lifecycle phases              *)
(* (check, prepare, build, publish) by the release-automation host.        *)
(*                                                                         *)
(* A version string "1.2.3" is the sequence <<1, 2, 3>> of its             *)
(* dot-separated numbers; a TOML table or JSON object is a function from   *)
(* its keys to its values, a key being present iff it is in the DOMAIN.    *)
(***************************************************************************)
EXTENDS Integers, Sequences, FiniteSets, TLC

\* Each component of a starting version is in 0 .. MaxPart.
MaxPart == 1

\* Exit codes of an external command are in 0 .. MaxExit.
MaxExit == 2

None == <<>>

EmptyTable == <<>>

Parts == 0 .. MaxPart

Versions == {<<a, b, c>> : a \in Parts, b \in Parts, c \in Parts}

ReleaseTypes == {"major", "minor", "patch"}

-----------------------------------------------------------------------------
(* Dictionaries and tables *)

Has(d, k) == k \in DOMAIN d

Put(d, k, v) == [j \in (DOMAIN d) \cup {k} |-> IF j = k THEN v ELSE d[j]]

\* A lookup that may raise KeyError.
Found(v) == [ok |-> TRUE, value |-> v]

KeyError == [ok |-> FALSE, value |-> None]

-----------------------------------------------------------------------------
(* Version arithmetic *)

\* {"major": 0, "minor": 1, "patch": 2}[release_info.release_type]
BumpType(release_type) ==
  CASE release_type = "major" -> 0
    [] release_type = "minor" -> 1
    [] release_type = "patch" -> 2

\* A bump that forgets to reset the components after the bumped one.
BumpNoReset(base, index) ==
  [i \in 1 .. Len(base) |-> IF i = index + 1 THEN base[i] + 1 ELSE base[i]]

\* A bump that resets the components before the bumped one.
BumpResetsBefore(base, index) ==
  [i \in 1 .. Len(base) |->
     IF i = index + 1 THEN base[i] + 1
     ELSE IF i < index + 1 THEN 0 ELSE base[i]]

\* bump_version(base, index) of the versioning library, as Version.bump
\* applies it: the component at index is incremented and every later
\* component is set to 0.
Bump(base, index) ==
  [i \in 1 .. Len(base) |->
     IF i = index + 1 THEN base[i] + 1
     ELSE IF i > index + 1 THEN 0 ELSE base[i]]

\* Version(current_version): the string is kept as the base.
Version(current_version) == [base |-> current_version]

\* version.bump(bump_type)
VersionBump(version, bump_type) ==
  [version EXCEPT !.base = Bump(version.base, bump_type)]

\* str(version) and version.serialize(): a version with nothing but a base
\* serializes to the base.
Serialize(version) == version.base

-----------------------------------------------------------------------------
(* Manifests *)

\* BunPlugin._get_version: package_json["version"]
BunGetVersion(package) ==
  IF Has(package, "version") THEN Found(package.version) ELSE KeyError

\* An update that leaves the version as it was.
BunUpdateVersionKeeps(package, new_version) == package

\* BunPlugin._update_version: package["version"] = new_version, then the
\* file is rewritten.
BunUpdateVersion(package, new_version) == Put(package, "version", new_version)

\* config["tool"]["poetry"]: KeyError when "tool" or "poetry" is missing.
HasPoetry(config) == Has(config, "tool") /\ Has(config.tool, "poetry")

\* UvMonorepoPlugin._get_version
UvGetVersion(config) ==
  IF HasPoetry(config) /\ Has(config.tool.poetry, "version")
  THEN Found(config.tool.poetry.version)
  ELSE IF Has(config, "project") /\ Has(config.project, "version")
       THEN Found(config.project.version)
       ELSE KeyError

\* An update that prefers project.version, against the order of the read.
UvUpdateVersionProjectFirst(config, new_version) ==
  IF Has(config, "project")
  THEN Found(Put(config, "project",
                 Put(config.project, "version", new_version)))
  ELSE IF HasPoetry(config)
       THEN Found(Put(config, "tool",
                      Put(config.tool, "poetry",
                          Put(config.tool.poetry, "version", new_version))))
       ELSE KeyError

\* UvMonorepoPlugin._update_version: the assignment to
\* config["tool"]["poetry"]["version"] raises KeyError only when "tool" or
\* "poetry" is missing; an existing tool.poetry table without a version key
\* gets one.
UvUpdateVersion(config, new_version) ==
  IF HasPoetry(config)
  THEN Found(Put(config, "tool",
                 Put(config.tool, "poetry",
                     Put(config.tool.poetry, "version", new_version))))
  ELSE IF Has(config, "project")
       THEN Found(Put(config, "project",
                      Put(config.project, "version", new_version)))
       ELSE KeyError

\* UvMonorepoPlugin._get_package_name: ok = FALSE stands for None.
UvGetPackageName(config) ==
  IF HasPoetry(config) /\ Has(config.tool.poetry, "name")
  THEN Found(config.tool.poetry.name)
  ELSE IF Has(config, "project") /\ Has(config.project, "name")
       THEN Found(config.project.name)
       ELSE [ok |-> FALSE, value |-> ""]

-----------------------------------------------------------------------------
(* The package's __init__.py *)

\* A file's text is a sequence of pieces. A piece of kind "assign" is one
\* match of the pattern __version__\s*=\s*["'][\d.]+["']: lhs and rhs count
\* the whitespace characters before and after "=", open and close are the
\* quote characters, value is the dotted number. A piece of kind "text" is
\* text in which the pattern does not match.
Assign(lhs, rhs, open, close, value) ==
  [t |-> "assign", lhs |-> lhs, rhs |-> rhs, open |-> open, close |-> close,
   value |-> value, text |-> ""]

Text(s) ==
  [t |-> "text", lhs |-> 0, rhs |-> 0, open |-> "", close |-> "",
   value |-> None, text |-> s]

\* re.search(pattern, content)
ReSearch(content) == \E i \in 1 .. Len(content) : content[i].t = "assign"

\* The replacement string f'__version__ = "{new_version}"'
Replacement(new_version) == Assign(1, 1, "\"", "\"", new_version)

\* A substitution that rewrites only the first match.
ReSubFirst(content, new_version) ==
  [i \in 1 .. Len(content) |->
     IF content[i].t = "assign"
        /\ \A j \in 1 .. (i - 1) : content[j].t # "assign"
     THEN Replacement(new_version) ELSE content[i]]

\* A substitution that adds the new assignment at the head of the text and
\* keeps what it matched.
ReSubInserts(content, new_version) ==
  <<Replacement(new_version)>> \o content

\* re.sub(pattern, replacement, content): every match is replaced.
ReSub(content, new_version) ==
  [i \in 1 .. Len(content) |->
     IF content[i].t = "assign" THEN Replacement(new_version) ELSE content[i]]

\* package_name.replace("-", "_")
PackageDir(package_name) ==
  CASE package_name = "cross-docs" -> "cross_docs"
    [] OTHER -> package_name

\* possible_paths, relative to config.package_path
PossiblePaths(package_dir) ==
  << <<"src", package_dir, "__init__.py">>,
     <<package_dir, "__init__.py">>,
     <<"src", "__init__.py">> >>

\* UvMonorepoPlugin._find_package_init: the first candidate that exists,
\* ok = FALSE standing for None.
FindPackageInit(files, package_name) ==
  LET paths == PossiblePaths(PackageDir(package_name))
      hits == {i \in 1 .. Len(paths) : paths[i] \in DOMAIN files}
  IN IF hits = {} THEN [ok |-> FALSE, value |-> None]
     ELSE Found(paths[CHOOSE i \in hits : \A j \in hits : i <= j])

\* An update that, finding no literal in the package's __init__.py, adds one
\* at the end of the file.
UpdateInitVersionAppends(config, files, new_version) ==
  LET package_name == UvGetPackageName(config)
      untouched == [files |-> files, written |-> <<>>]
  IN IF ~package_name.ok \/ package_name.value = "" THEN untouched
     ELSE LET init_file == FindPackageInit(files, package_name.value)
          IN IF ~init_file.ok THEN untouched
             ELSE [files |-> [files EXCEPT ![init_file.value] =
                                IF ReSearch(@) THEN ReSub(@, new_version)
                                ELSE @ \o <<Replacement(new_version)>>],
                   written |-> init_file.value]

\* UvMonorepoPlugin._update_init_version: the files after the call, and the
\* path written (<<>> when the call returns before write_text).
UpdateInitVersion(config, files, new_version) ==
  LET package_name == UvGetPackageName(config)
      untouched == [files |-> files, written |-> <<>>]
  IN IF ~package_name.ok \/ package_name.value = "" THEN untouched
     ELSE LET init_file == FindPackageInit(files, package_name.value)
          IN IF ~init_file.ok THEN untouched
             ELSE IF ~ReSearch(files[init_file.value]) THEN untouched
                  ELSE [files |-> [files EXCEPT ![init_file.value] =
                                     ReSub(files[init_file.value], new_version)],
                        written |-> init_file.value]

-----------------------------------------------------------------------------
(* External commands *)

\* What running a command can come to: it exits with a code, its executable
\* is not found, or it cannot be started for another reason (for example
\* the file is not executable).
Outcomes ==
  {[kind |-> "exit", code |-> c] : c \in 0 .. MaxExit}
    \cup {[kind |-> "notfound", code |-> -1], [kind |-> "oserror", code |-> -1]}

NoError == [type |-> "none", command |-> <<>>, returncode |-> -1]

Raise(type) == [type |-> type, command |-> <<>>, returncode |-> -1]

\* subprocess.run(command, check=True): the exception raised, if any.
SubprocessRun(command, outcome) ==
  CASE outcome.kind = "exit" /\ outcome.code = 0 -> NoError
    [] outcome.kind = "exit" /\ outcome.code # 0 ->
         [type |-> "CalledProcessError", command |-> command,
          returncode |-> outcome.code]
    [] outcome.kind = "notfound" ->
         [type |-> "FileNotFoundError", command |-> command, returncode |-> -1]
    [] outcome.kind = "oserror" ->
         [type |-> "PermissionError", command |-> command, returncode |-> -1]

\* A runner that reports every failing command with return code 0.
RunCommandInDirLosesCode(command, outcome) ==
  LET e == SubprocessRun(command, outcome)
  IN IF e.type = "CalledProcessError"
     THEN [type |-> "CommandFailed", command |-> command, returncode |-> 0]
     ELSE e

\* run_command_in_dir: CalledProcessError becomes CommandFailed carrying the
\* command and the return code; nothing else is caught.
RunCommandInDir(command, outcome) ==
  LET e == SubprocessRun(command, outcome)
  IN IF e.type = "CalledProcessError"
     THEN [type |-> "CommandFailed", command |-> command,
           returncode |-> e.returncode]
     ELSE e

\* A probe that takes any run of the tool for availability.
IsAvailableAlways(command, outcome) ==
  [error |-> NoError, value |-> TRUE]

\* _is_bun_available / _is_uv_available: CalledProcessError and
\* FileNotFoundError are caught and give False; any other exception leaves
\* the probe.
IsAvailable(command, outcome) ==
  LET e == SubprocessRun(command, outcome)
  IN IF e.type = "none" THEN [error |-> NoError, value |-> TRUE]
     ELSE IF e.type \in {"CalledProcessError", "FileNotFoundError"}
          THEN [error |-> NoError, value |-> FALSE]
          ELSE [error |-> e, value |-> FALSE]

\* Entries of the log of side effects, in the order they happen.
Wrote(path) ==
  [ev |-> "write", what |-> path, cwd |-> "", env |-> {}, kind |-> "",
   code |-> -1]

Assigned(field) ==
  [ev |-> "assign", what |-> <<field>>, cwd |-> "", env |-> {}, kind |-> "",
   code |-> -1]

\* A command is logged with the environment its child process is given, as a
\* set of <<name, value>> pairs.
Ran(command, cwd, env, outcome) ==
  [ev |-> "run", what |-> command, cwd |-> cwd, env |-> env,
   kind |-> outcome.kind, code |-> outcome.code]

\* A probe is logged with its answer: "available", "unavailable" or "raised".
Probed(command, answer) ==
  [ev |-> "probe", what |-> command, cwd |-> "", env |-> {}, kind |-> answer,
   code |-> -1]

Answer(probe) ==
  IF probe.error.type # "none" THEN "raised"
  ELSE IF probe.value THEN "available" ELSE "unavailable"

-----------------------------------------------------------------------------
(* State *)

VARIABLES
  order,         \* the host's plugin list, in the order it calls the plugins
  bun_config,    \* BunPluginConfig
  uv_config,     \* UvMonorepoPluginConfig
  release_info,  \* the ReleaseInfo shared by the phases
  pyproject,     \* <package_path>/pyproject.toml, parsed
  package_json,  \* <package_path>/package.json, parsed
  init_files,    \* the __init__.py files that exist, by path
  root_manifest, \* the workspace's root pyproject.toml
  host_args,     \* the arguments the host gives publish
  initial,       \* the files and the environment as the run started
  environ,       \* os.environ of the process, as <<name, value>> pairs
  literal,       \* one __init__.py under repeated _update_init_version
  availability,  \* one call of an availability probe and what it gave
  pc,            \* the phase the host is in and the plugin it calls next
  error,         \* the exception that reached the host
  log            \* the side effects so far, in order

vars ==
  <<order, bun_config, uv_config, release_info, pyproject, package_json,
    init_files, root_manifest, host_args, initial, environ, literal,
    availability, pc, error, log>>

\* os.environ as the release starts: no provenance variable is set.
Environ == {<<"PATH", "/usr/bin">>, <<"CI", "true">>}

\* The values of literal and availability while the pipeline runs: no
\* function is under separate study.
NoLiteral ==
  [files |-> <<>>, target |-> None, runs |-> 0, original |-> <<>>,
   first |-> <<>>, written |-> <<>>]

NoProbe ==
  [state |-> "none", command |-> <<>>, outcome |-> [kind |-> "", code |-> -1],
   value |-> FALSE, error |-> NoError]

\* The version of the release scenario, "1.2.3", and a stale one, "0.2.7".
ScenarioVersion == <<1, 2, 3>>

StaleVersion == <<0, 2, 7>>

NameEntries == {EmptyTable, [name |-> "cross-docs"]}

\* The shapes of pyproject.toml, holding version v (and other in the second
\* place when both places hold one) and the name entries names.
PyLayouts(v, other, names) ==
  { [project |-> names @@ [version |-> v]],
    [tool |-> [autopub |-> EmptyTable], project |-> names @@ [version |-> v]],
    [tool |-> [poetry |-> names @@ [version |-> v]]],
    [tool |-> [poetry |-> names @@ [version |-> v]],
     project |-> [version |-> other]],
    [tool |-> [poetry |-> names], project |-> [version |-> v]],
    [tool |-> [poetry |-> names], project |-> EmptyTable] }

InitFileSets(v) ==
  { EmptyTable,
    <<"src", "cross_docs", "__init__.py">> :>
        <<Text("doc"), Assign(1, 1, "\"", "\"", v), Text("all")>>,
    <<"src", "cross_docs", "__init__.py">> :>
        <<Assign(0, 2, "'", "'", v), Text("x"),
          Assign(1, 1, "\"", "\"", <<1, 0>>)>>,
    (<<"cross_docs", "__init__.py">> :> <<Text("doc")>>)
      @@ (<<"src", "__init__.py">> :> <<Assign(1, 1, "\"", "\"", v)>>) }

RootManifests(v) ==
  { [exists |-> FALSE, doc |-> EmptyTable],
    [exists |-> TRUE, doc |-> [tool |-> [uv |-> EmptyTable]]],
    [exists |-> TRUE,
     doc |-> [project |-> [name |-> "workspace", version |-> v]]] }

PackageJsons(v) ==
  { [name |-> "@usecross/docs", version |-> v], [name |-> "@usecross/docs"] }

\* Every pair of starting versions of pyproject.toml and package.json (the
\* latter may also hold none), in the usual workspace: the version under
\* project, the literal in src/cross_docs/__init__.py, a root manifest that
\* mirrors the version, no registry configured.
InitVersionGrid ==
  /\ \E v \in Versions, w \in Versions :
       /\ pyproject = [project |-> [name |-> "cross-docs", version |-> v]]
       /\ package_json \in PackageJsons(w)
       /\ init_files = <<"src", "cross_docs", "__init__.py">> :>
                         <<Text("doc"), Assign(1, 1, "\"", "\"", v)>>
       /\ root_manifest =
            [exists |-> TRUE,
             doc |-> [project |-> [name |-> "workspace", version |-> v]]]
  /\ bun_config.registry = None

\* Every shape of the workspace, at the scenario's version.
InitWorkspaceShapes ==
  /\ \E names \in NameEntries :
       pyproject \in PyLayouts(ScenarioVersion, StaleVersion, names)
  /\ package_json = [name |-> "@usecross/docs", version |-> ScenarioVersion]
  /\ init_files \in InitFileSets(ScenarioVersion)
  /\ root_manifest \in RootManifests(ScenarioVersion)

Init ==
  /\ order \in {<<"uv_monorepo", "bun">>, <<"bun", "uv_monorepo">>}
  /\ bun_config \in {[package_path |-> "js", build_command |-> "build",
                      registry |-> r] : r \in {None, <<"https://npm.example">>}}
  /\ uv_config = [package_path |-> "python"]
  /\ release_info \in {[release_type |-> t, previous_version |-> None,
                        version |-> None] : t \in ReleaseTypes}
  /\ (InitVersionGrid \/ InitWorkspaceShapes)
  /\ environ = Environ
  /\ initial = [pyproject |-> pyproject, package_json |-> package_json,
                init_files |-> init_files, environ |-> environ]
  /\ literal = NoLiteral
  /\ availability = NoProbe
  /\ host_args = [given |-> FALSE, repository |-> None, kwargs |-> EmptyTable]
  /\ pc = [phase |-> "check", idx |-> 1]
  /\ error = NoError
  /\ log = <<>>

-----------------------------------------------------------------------------
(* The host *)

Phases == <<"check", "prepare", "build", "publish", "done">>

\* The plugin the host calls next.
Plugin == order[pc.idx]

\* The host calls a phase's hook on every plugin in order, then starts the
\* next phase.
Advance(at) ==
  IF at.idx < Len(order) THEN [at EXCEPT !.idx = at.idx + 1]
  ELSE [phase |-> Phases[(CHOOSE i \in 1 .. 4 : Phases[i] = at.phase) + 1],
        idx |-> 1]

\* An exception that leaves a hook ends the run: the host calls nothing more.
Calls(phase, plugin) ==
  /\ error.type = "none"
  /\ pc.phase = phase
  /\ Plugin = plugin

\* What a hook leaves behind: the host moves on, or holds the exception.
Return(e) ==
  /\ error' = e
  /\ pc' = IF e.type = "none" THEN Advance(pc) ELSE pc

-----------------------------------------------------------------------------
(* check *)

\* post_check of either plugin, given what its _get_version found.
PostCheck(current_version) ==
  IF ~current_version.ok
  THEN /\ Return(Raise("KeyError"))
       /\ UNCHANGED <<release_info, log>>
  ELSE LET bump_type == BumpType(release_info.release_type)
           version == Version(current_version.value)
       IN /\ release_info' =
               [release_info EXCEPT
                  !.previous_version = Serialize(version),
                  !.version = Serialize(VersionBump(version, bump_type))]
          /\ log' = log \o <<Assigned("previous_version"), Assigned("version")>>
          /\ Return(NoError)

\* UvMonorepoPlugin.post_check
UvPostCheck ==
  /\ Calls("check", "uv_monorepo")
  /\ PostCheck(UvGetVersion(pyproject))
  /\ UNCHANGED <<environ, literal, availability, order, bun_config,
                 uv_config, pyproject, package_json,
                 init_files, root_manifest, host_args, initial>>

\* BunPlugin.post_check
BunPostCheck ==
  /\ Calls("check", "bun")
  /\ PostCheck(BunGetVersion(package_json))
  /\ UNCHANGED <<environ, literal, availability, order, bun_config,
                 uv_config, pyproject, package_json,
                 init_files, root_manifest, host_args, initial>>

-----------------------------------------------------------------------------
(* prepare *)

\* Lock regeneration that runs the lock command whatever the probe answers.
RegenerateLockUngated(probe_command, probe, lock_command, cwd, lock) ==
  LET available == IsAvailable(probe_command, probe)
      probed == <<Probed(probe_command, Answer(available))>>
  IN IF available.error.type # "none"
     THEN [events |-> probed, error |-> available.error]
     ELSE [events |-> probed \o <<Ran(lock_command, cwd, environ, lock)>>,
           error |-> SubprocessRun(lock_command, lock)]

\* The steps of a post_prepare after its manifest is written: the probe,
\* then the lock command when the probe answers True. subprocess.run is
\* called directly: nothing is caught.
RegenerateLock(probe_command, probe, lock_command, cwd, lock) ==
  LET available == IsAvailable(probe_command, probe)
      probed == <<Probed(probe_command, Answer(available))>>
  IN IF available.error.type # "none"
     THEN [events |-> probed, error |-> available.error]
     ELSE IF ~available.value
          THEN [events |-> probed, error |-> NoError]
          ELSE [events |-> probed \o <<Ran(lock_command, cwd, environ, lock)>>,
                error |-> SubprocessRun(lock_command, lock)]

\* UvMonorepoPlugin.post_prepare
UvPostPrepare ==
  /\ Calls("prepare", "uv_monorepo")
  /\ \E probe \in Outcomes, lock \in Outcomes :
       LET updated == UvUpdateVersion(pyproject, release_info.version)
       IN IF release_info.version = None
          THEN /\ Return(Raise("AssertionError"))
               /\ UNCHANGED <<pyproject, init_files, log>>
          ELSE IF ~updated.ok
          THEN /\ Return(Raise("KeyError"))
               /\ UNCHANGED <<pyproject, init_files, log>>
          ELSE LET init == UpdateInitVersion(updated.value, init_files,
                                             release_info.version)
                   locked == RegenerateLock(<<"uv", "--version">>, probe,
                                            <<"uv", "lock">>,
                                            uv_config.package_path, lock)
               IN /\ pyproject' = updated.value
                  /\ init_files' = init.files
                  /\ log' = log \o <<Wrote(<<"pyproject.toml">>)>>
                              \o (IF init.written = <<>> THEN <<>>
                                  ELSE <<Wrote(init.written)>>)
                              \o locked.events
                  /\ Return(locked.error)
  /\ UNCHANGED <<environ, literal, availability, order, bun_config,
                 uv_config, release_info, package_json,
                 root_manifest, host_args, initial>>

\* BunPlugin.post_prepare
BunPostPrepare ==
  /\ Calls("prepare", "bun")
  /\ \E probe \in Outcomes, lock \in Outcomes :
       IF release_info.version = None
       THEN /\ Return(Raise("AssertionError"))
            /\ UNCHANGED <<package_json, log>>
       ELSE LET locked == RegenerateLock(<<"bun", "--version">>, probe,
                                         <<"bun", "install">>,
                                         bun_config.package_path, lock)
            IN /\ package_json' =
                    BunUpdateVersion(package_json, release_info.version)
               /\ log' = log \o <<Wrote(<<"package.json">>)>> \o locked.events
               /\ Return(locked.error)
  /\ UNCHANGED <<environ, literal, availability, order, bun_config,
                 uv_config, release_info, pyproject,
                 init_files, root_manifest, host_args, initial>>

-----------------------------------------------------------------------------
(* build *)

\* A hook that is one call of run_command_in_dir.
RunHook(command, cwd, outcome) ==
  /\ log' = log \o <<Ran(command, cwd, environ, outcome)>>
  /\ Return(RunCommandInDir(command, outcome))

\* UvMonorepoPlugin.build
UvBuild ==
  /\ Calls("build", "uv_monorepo")
  /\ \E outcome \in Outcomes :
       RunHook(<<"uv", "build">>, uv_config.package_path, outcome)
  /\ UNCHANGED <<environ, literal, availability, order, bun_config,
                 uv_config, release_info, pyproject,
                 package_json, init_files, root_manifest, host_args, initial>>

\* BunPlugin.build
BunBuild ==
  /\ Calls("build", "bun")
  /\ \E outcome \in Outcomes :
       RunHook(<<"bun", "run", bun_config.build_command>>,
               bun_config.package_path, outcome)
  /\ UNCHANGED <<environ, literal, availability, order, bun_config,
                 uv_config, release_info, pyproject,
                 package_json, init_files, root_manifest, host_args, initial>>

-----------------------------------------------------------------------------
(* publish *)

\* The arguments the host may give publish; it gives every plugin the same.
HostArgs ==
  {[given |-> TRUE, repository |-> r, kwargs |-> k] :
     r \in {None, <<"https://registry.example">>},
     k \in {EmptyTable, [token |-> "<token>"],
            [publish_url |-> "https://upload.example",
             username |-> "__token__", password |-> "<password>"]}}

\* Python's truth of an optional string, None being <<>> and a string s <<s>>.
Truthy(x) == x # None /\ x # <<"">>

\* kwargs.get(key), when it is truthy, as the arguments it adds.
Option(kwargs, key, flag) ==
  IF Has(kwargs, key) /\ kwargs[key] # "" THEN <<flag, kwargs[key]>> ELSE <<>>

\* UvMonorepoPlugin.publish
UvPublish ==
  /\ Calls("publish", "uv_monorepo")
  /\ \E args \in HostArgs, outcome \in Outcomes :
       /\ host_args.given => args = host_args
       /\ host_args' = args
       /\ IF Truthy(args.repository)
          THEN /\ Return(Raise("ValueError"))
               /\ UNCHANGED log
          ELSE RunHook(<<"uv", "publish">>
                         \o Option(args.kwargs, "publish_url", "--publish-url")
                         \o Option(args.kwargs, "username", "--username")
                         \o Option(args.kwargs, "password", "--password")
                         \o Option(args.kwargs, "token", "--token"),
                       uv_config.package_path, outcome)
  /\ UNCHANGED <<environ, literal, availability, order, bun_config,
                 uv_config, release_info, pyproject,
                 package_json, init_files, root_manifest, initial>>

\* BunPlugin.publish
BunPublish ==
  /\ Calls("publish", "bun")
  /\ \E args \in HostArgs, outcome \in Outcomes :
       /\ host_args.given => args = host_args
       /\ host_args' = args
       /\ LET registry == IF Truthy(args.repository) THEN args.repository
                          ELSE bun_config.registry
          IN RunHook(<<"bun", "publish", "--access", "public">>
                        \o (IF Truthy(args.repository)
                               \/ Truthy(bun_config.registry)
                            THEN <<"--registry">> \o registry ELSE <<>>),
                     bun_config.package_path, outcome)
  /\ UNCHANGED <<environ, literal, availability, order, bun_config,
                 uv_config, release_info, pyproject,
                 package_json, init_files, root_manifest, initial>>

-----------------------------------------------------------------------------

Next ==
  \/ UvPostCheck
  \/ BunPostCheck
  \/ UvPostPrepare
  \/ BunPostPrepare
  \/ UvBuild
  \/ BunBuild
  \/ UvPublish
  \/ BunPublish

Spec == Init /\ [][Next]_vars

-----------------------------------------------------------------------------
(* _update_init_version and the availability probes, called on their own *)

\* The longest file text, in pieces, the most whitespace on a side of "=",
\* and the most calls of _update_init_version on one file.
MaxPieces == 2

MaxSpace == 1

MaxRuns == 2

Quotes == {"\"", "'"}

\* The pieces a file is made of: text without a match, and a match in every
\* spacing and quoting the pattern admits.
LiteralPieces ==
  {Text("\"\"\"Docs.\"\"\"")}
    \cup {Assign(lhs, rhs, open, close, StaleVersion) :
            lhs \in 0 .. MaxSpace, rhs \in 0 .. MaxSpace,
            open \in Quotes, close \in Quotes}

LiteralContents ==
  UNION {[1 .. n -> LiteralPieces] : n \in 0 .. MaxPieces}

\* new_version: the literal's own value, or the next patch of the scenario.
LiteralTargets == {StaleVersion, Bump(ScenarioVersion, 2)}

\* The pyproject.toml and the path of the package whose literal is updated.
LiteralConfig == [project |-> [name |-> "cross-docs"]]

LiteralPath == <<"src", "cross_docs", "__init__.py">>

\* The tool's version command of either probe.
ProbeCommands == {<<"uv", "--version">>, <<"bun", "--version">>}

\* Either one __init__.py and a target version, or one probe and the outcome
\* of its command; no release is running.
FunctionInit ==
  /\ order = <<"uv_monorepo", "bun">>
  /\ bun_config = [package_path |-> "js", build_command |-> "build",
                   registry |-> None]
  /\ uv_config = [package_path |-> "python"]
  /\ release_info = [release_type |-> "patch", previous_version |-> None,
                     version |-> None]
  /\ pyproject = LiteralConfig
  /\ package_json = [name |-> "@usecross/docs", version |-> ScenarioVersion]
  /\ init_files = EmptyTable
  /\ root_manifest = [exists |-> FALSE, doc |-> EmptyTable]
  /\ environ = Environ
  /\ initial = [pyproject |-> pyproject, package_json |-> package_json,
                init_files |-> init_files, environ |-> environ]
  /\ host_args = [given |-> FALSE, repository |-> None, kwargs |-> EmptyTable]
  /\ pc = [phase |-> "done", idx |-> 1]
  /\ error = NoError
  /\ log = <<>>
  /\ \/ /\ \E content \in LiteralContents, new_version \in LiteralTargets :
              literal = [files |-> (LiteralPath :> content),
                         target |-> new_version, runs |-> 0,
                         original |-> (LiteralPath :> content),
                         first |-> (LiteralPath :> content),
                         written |-> <<>>]
        /\ availability = NoProbe
     \/ /\ literal = NoLiteral
        /\ \E command \in ProbeCommands, outcome \in Outcomes :
              availability = [state |-> "ready", command |-> command,
                              outcome |-> outcome, value |-> FALSE,
                              error |-> NoError]

\* One call of _update_init_version(new_version) on the file; first keeps the
\* file as the first call left it.
CallUpdateInitVersion ==
  /\ literal.target # None
  /\ literal.runs < MaxRuns
  /\ LET init == UpdateInitVersion(LiteralConfig, literal.files,
                                   literal.target)
     IN literal' = [literal EXCEPT
                      !.files = init.files,
                      !.written = init.written,
                      !.runs = @ + 1,
                      !.first = IF literal.runs = 0 THEN init.files ELSE @]
  /\ UNCHANGED <<environ, availability, order, bun_config, uv_config,
                 release_info, pyproject, package_json, init_files,
                 root_manifest, host_args, initial, pc, error, log>>

\* One call of _is_uv_available or _is_bun_available.
CallIsAvailable ==
  /\ availability.state = "ready"
  /\ LET probe == IsAvailable(availability.command, availability.outcome)
     IN availability' = [availability EXCEPT
                           !.state = IF probe.error.type = "none"
                                     THEN "returned" ELSE "raised",
                           !.value = probe.value,
                           !.error = probe.error]
  /\ UNCHANGED <<environ, literal, order, bun_config, uv_config, release_info,
                 pyproject, package_json, init_files, root_manifest,
                 host_args, initial, pc, error, log>>

FunctionNext ==
  \/ CallUpdateInitVersion
  \/ CallIsAvailable

FunctionSpec == FunctionInit /\ [][FunctionNext]_vars

-----------------------------------------------------------------------------
(* Properties *)

PhaseIndex(phase) == CHOOSE i \in 1 .. Len(Phases) : Phases[i] = phase

Failed == error.type # "none"

\* The host is past prepare: both post_prepare hooks have returned normally.
Prepared == PhaseIndex(pc.phase) > 2

\* The log entries that are e.
Count(e) == Cardinality({i \in 1 .. Len(log) : log[i] = e})

SemverLess(a, b) ==
  \/ a[1] < b[1]
  \/ a[1] = b[1] /\ a[2] < b[2]
  \/ a[1] = b[1] /\ a[2] = b[2] /\ a[3] < b[3]

\* The package's __init__.py as _update_init_version finds it.
PackageInit ==
  LET package_name == UvGetPackageName(pyproject)
  IN IF ~package_name.ok \/ package_name.value = ""
     THEN [ok |-> FALSE, value |-> None]
     ELSE FindPackageInit(init_files, package_name.value)

\* C1: once post_check and then post_prepare have run for both plugins
\* without failure, pyproject.toml, package.json and ReleaseInfo.version hold
\* the same version, and so does every matched __version__ literal of the
\* package's __init__.py.
C1_PreparedVersionsAgree ==
  Prepared =>
    /\ UvGetVersion(pyproject) = Found(release_info.version)
    /\ BunGetVersion(package_json) = Found(release_info.version)
    /\ PackageInit.ok =>
         \A i \in 1 .. Len(init_files[PackageInit.value]) :
           init_files[PackageInit.value][i].t = "assign" =>
             init_files[PackageInit.value][i].value = release_info.version

C1_Witness ==
  /\ Prepared
  /\ UvGetVersion(initial.pyproject) = Found(<<0, 1, 1>>)
  /\ BunGetVersion(initial.package_json) = Found(<<1, 0, 1>>)
  /\ UvGetVersion(pyproject) = BunGetVersion(package_json)
  /\ PackageInit.ok
  /\ ReSearch(init_files[PackageInit.value])

\* The last side effect.
Last == log[Len(log)]

\* C2 as claimed, in the case it names: after a lock-regeneration command
\* has failed inside prepare, the two manifests, which reported the same
\* version at the start, report the same version as each other.
C2_FailureLeavesManifestsEqual ==
  (/\ Failed
   /\ log # <<>>
   /\ Last.ev = "run"
   /\ Last.kind = "exit"
   /\ UvGetVersion(initial.pyproject).ok
   /\ UvGetVersion(initial.pyproject) = BunGetVersion(initial.package_json))
    => UvGetVersion(pyproject) = BunGetVersion(package_json)

\* C2 as amended: a failure rolls nothing back. After a failure a manifest
\* that had been written reports ReleaseInfo.version and a manifest that had
\* not been written is as it was at the start.
C2_FailureKeepsWhatWasWritten ==
  Failed =>
    /\ IF Count(Wrote(<<"pyproject.toml">>)) > 0
       THEN UvGetVersion(pyproject) = Found(release_info.version)
       ELSE pyproject = initial.pyproject
    /\ IF Count(Wrote(<<"package.json">>)) > 0
       THEN BunGetVersion(package_json) = Found(release_info.version)
       ELSE package_json = initial.package_json

C2_Witness ==
  /\ Failed
  /\ pc.phase = "prepare"
  /\ UvGetVersion(initial.pyproject) = BunGetVersion(initial.package_json)
  /\ UvGetVersion(pyproject) = Found(release_info.version)
  /\ package_json = initial.package_json
  /\ BunGetVersion(package_json) = Found(release_info.previous_version)

\* The plugin whose post_check ran last.
LastChecked == IF pc.phase = "check" THEN order[1] ELSE order[Len(order)]

\* The version its manifest held when it ran (check writes no manifest).
LastCurrent ==
  IF LastChecked = "uv_monorepo" THEN UvGetVersion(initial.pyproject).value
  ELSE BunGetVersion(initial.package_json).value

\* C3: post_check leaves the manifest's version major.minor.patch in
\* previous_version and sets version to (major+1).0.0 for "major",
\* major.(minor+1).0 for "minor" and major.minor.(patch+1) for "patch".
C3_CheckComputesNextVersion ==
  release_info.version # None =>
    /\ release_info.previous_version = LastCurrent
    /\ release_info.version =
         CASE release_info.release_type = "major" ->
                <<LastCurrent[1] + 1, 0, 0>>
           [] release_info.release_type = "minor" ->
                <<LastCurrent[1], LastCurrent[2] + 1, 0>>
           [] release_info.release_type = "patch" ->
                <<LastCurrent[1], LastCurrent[2], LastCurrent[3] + 1>>

C3_Witness ==
  /\ pc = [phase |-> "check", idx |-> 2]
  /\ release_info = [release_type |-> "major", previous_version |-> <<1, 1, 1>>,
                     version |-> <<2, 0, 0>>]

\* C4: once check has set it, version is strictly greater than
\* previous_version in semantic-version order, and the same bump applied to
\* version gives a version strictly greater still.
C4_VersionStrictlyGreater ==
  release_info.version # None =>
    /\ SemverLess(release_info.previous_version, release_info.version)
    /\ SemverLess(release_info.version,
                  Serialize(VersionBump(Version(release_info.version),
                                        BumpType(release_info.release_type))))

C4_Witness ==
  /\ pc.phase = "prepare"
  /\ release_info = [release_type |-> "minor", previous_version |-> <<1, 1, 1>>,
                     version |-> <<1, 2, 0>>]

\* C5 as claimed: in one run previous_version and version are each assigned
\* at most once.
C5_FieldsAssignedOnce ==
  /\ Count(Assigned("previous_version")) <= 1
  /\ Count(Assigned("version")) <= 1

\* C6 as claimed: a command that exits non-zero reaches the host as
\* CommandFailed with its argv and its exit code, the lock commands of
\* prepare included.
C6_NonZeroExitIsCommandFailed ==
  (Failed /\ log # <<>> /\ Last.ev = "run" /\ Last.kind = "exit" /\ Last.code # 0)
    => error = [type |-> "CommandFailed", command |-> Last.what,
                returncode |-> Last.code]

\* C7 as claimed: a build or publish command that cannot be started reaches
\* the host as CommandFailed.
C7_UnstartableIsCommandFailed ==
  (/\ Failed
   /\ pc.phase \in {"build", "publish"}
   /\ log # <<>>
   /\ Last.ev = "run"
   /\ Last.kind \in {"notfound", "oserror"})
    => error.type = "CommandFailed"

\* The commands run so far whose argv starts with these words.
RunsOf(words) ==
  {i \in 1 .. Len(log) :
     /\ log[i].ev = "run"
     /\ Len(log[i].what) >= Len(words)
     /\ SubSeq(log[i].what, 1, Len(words)) = words}

\* C8: with the Python package first, once its build command has exited
\* non-zero the host holds CommandFailed with that argv and that code (code 1
\* in particular), the JS build command has not been started, and no publish
\* command has.
C8_FailedBuildStopsThePipeline ==
  \A i \in RunsOf(<<"uv", "build">>) :
    (order[1] = "uv_monorepo" /\ log[i].kind = "exit" /\ log[i].code # 0) =>
      /\ error = [type |-> "CommandFailed", command |-> <<"uv", "build">>,
                  returncode |-> log[i].code]
      /\ RunsOf(<<"bun", "run">>) = {}
      /\ RunsOf(<<"uv", "publish">>) = {}
      /\ RunsOf(<<"bun", "publish">>) = {}
      /\ i = Len(log)

C8_Witness ==
  /\ order[1] = "uv_monorepo"
  /\ error = [type |-> "CommandFailed", command |-> <<"uv", "build">>,
              returncode |-> 1]
  /\ Last = Ran(<<"uv", "build">>, uv_config.package_path, environ,
                [kind |-> "exit", code |-> 1])

\* C9, for one ecosystem: the lock command runs exactly after a probe that
\* answered True, the probe comes after the write of the manifest, and a
\* probe that answered False ends a post_prepare that succeeded, with the
\* manifest at the new version.
LockGated(probe_command, lock_command, manifest, reported) ==
  /\ \A i \in 1 .. Len(log) :
       (log[i].ev = "probe" /\ log[i].what = probe_command) =>
         /\ \E j \in 1 .. (i - 1) : log[j] = Wrote(manifest)
         /\ log[i].kind = "available" <=>
              (i < Len(log) /\ log[i + 1].ev = "run"
                 /\ log[i + 1].what = lock_command)
         /\ (log[i].kind = "unavailable" /\ i = Len(log)) =>
              (~Failed /\ reported = Found(release_info.version))
  /\ \A i \in RunsOf(lock_command) :
       /\ i > 1
       /\ log[i - 1] = Probed(probe_command, "available")

C9_LockRunsIffProbeTrue ==
  /\ LockGated(<<"uv", "--version">>, <<"uv", "lock">>, <<"pyproject.toml">>,
               UvGetVersion(pyproject))
  /\ LockGated(<<"bun", "--version">>, <<"bun", "install">>, <<"package.json">>,
               BunGetVersion(package_json))

C9_Witness ==
  /\ pc.phase = "build"
  /\ ~Failed
  /\ Count(Probed(<<"uv", "--version">>, "unavailable")) = 1
  /\ RunsOf(<<"uv", "lock">>) = {}
  /\ Count(Probed(<<"bun", "--version">>, "available")) = 1
  /\ RunsOf(<<"bun", "install">>) # {}
  /\ UvGetVersion(pyproject) = Found(release_info.version)

\* C10 as claimed: after a successful prepare a root manifest that defines
\* project.version reports the new version.
C10_RootManifestSynchronized ==
  (/\ Prepared
   /\ root_manifest.exists
   /\ Has(root_manifest.doc, "project")
   /\ Has(root_manifest.doc.project, "version"))
    => root_manifest.doc.project.version = release_info.version

\* C11 as claimed: for a manifest whose version could be read, the manifest
\* prepare wrote reads back the version written and differs from the manifest
\* of the start in nothing but the field the read used (tool.poetry.version
\* if present, else project.version; "version" for package.json), no key
\* added, removed or changed.
C11_WriteChangesOnlyTheFieldRead ==
  /\ (Count(Wrote(<<"pyproject.toml">>)) > 0
        /\ UvGetVersion(initial.pyproject).ok) =>
       /\ UvGetVersion(pyproject) = Found(release_info.version)
       /\ pyproject =
            IF HasPoetry(initial.pyproject)
               /\ Has(initial.pyproject.tool.poetry, "version")
            THEN [initial.pyproject EXCEPT
                    !.tool.poetry.version = release_info.version]
            ELSE [initial.pyproject EXCEPT
                    !.project.version = release_info.version]
  /\ (Count(Wrote(<<"package.json">>)) > 0
        /\ BunGetVersion(initial.package_json).ok) =>
       /\ BunGetVersion(package_json) = Found(release_info.version)
       /\ package_json =
            [initial.package_json EXCEPT !.version = release_info.version]

\* The host has called the plugin's publish, which returned or raised.
PublishCalled(plugin) ==
  /\ host_args.given
  /\ \/ pc.phase = "done"
     \/ /\ pc.phase = "publish"
        /\ \E i \in 1 .. Len(order) :
             /\ order[i] = plugin
             /\ i < pc.idx \/ (i = pc.idx /\ Failed)

\* C12 as claimed: when the host gives publish a repository, each plugin's
\* publish runs its publish command with that repository in the argv; for
\* the JS package it is the --registry argument whatever config.registry is.
C12_OverrideReachesPublishCommand ==
  (host_args.given /\ Truthy(host_args.repository)) =>
    /\ PublishCalled("uv_monorepo") =>
         \E i \in RunsOf(<<"uv", "publish">>) :
           \E j \in 1 .. Len(log[i].what) :
             <<log[i].what[j]>> = host_args.repository
    /\ PublishCalled("bun") =>
         \E i \in 1 .. Len(log) :
           /\ log[i].ev = "run"
           /\ log[i].what = <<"bun", "publish", "--access", "public",
                              "--registry">> \o host_args.repository

\* The environment variable that turns on provenance in the npm client.
ProvenanceVariable == "NPM_CONFIG_PROVENANCE"

\* The publish commands run in the directory cwd.
PublishRuns(cwd) ==
  {i \in 1 .. Len(log) :
     /\ log[i].ev = "run"
     /\ log[i].cwd = cwd
     /\ \E j \in 1 .. Len(log[i].what) : log[i].what[j] = "publish"}

\* C13 as claimed: the argv of the Python publish holds the flag for
\* "always" trusted publishing; the JS publish is run with a client other
\* than bun, in an environment that is os.environ plus the provenance
\* variable; and os.environ itself is what it was before publish.
C13_PublishUsesTrustedPublishing ==
  /\ environ = initial.environ
  /\ \A i \in PublishRuns(uv_config.package_path) :
       \E j \in 1 .. (Len(log[i].what) - 1) :
         /\ log[i].what[j] = "--trusted-publishing"
         /\ log[i].what[j + 1] = "always"
  /\ \A i \in PublishRuns(bun_config.package_path) :
       /\ log[i].what[1] # "bun"
       /\ \E pair \in log[i].env :
            pair[1] = ProvenanceVariable /\ pair \notin environ
       /\ environ \subseteq log[i].env

\* C14: once _update_init_version has run twice or more on a file with the
\* same new_version, the file is what the first run left, whatever the file
\* held at the start: any spacing around "=", either quote, no, one or
\* several matches.
C14_SecondRunChangesNothing ==
  literal.runs >= 2 => literal.files = literal.first

\* Two runs on a file of two matches that differ in spacing and quotes, the
\* first run having rewritten the file.
C14_Witness ==
  /\ literal.runs = 2
  /\ literal.written = LiteralPath
  /\ literal.original[LiteralPath] =
       <<Assign(0, 1, "'", "'", StaleVersion),
         Assign(1, 0, "\"", "\"", StaleVersion)>>
  /\ literal.target = Bump(ScenarioVersion, 2)
  /\ literal.first # literal.original
  /\ literal.files = literal.first

\* The release started with nothing for _update_init_version to rewrite: no
\* package name in pyproject.toml, no __init__.py at any of the three
\* places, or no match in the first __init__.py found.
NothingToUpdate ==
  LET package_name == UvGetPackageName(initial.pyproject)
      init_file == FindPackageInit(initial.init_files, package_name.value)
  IN \/ ~package_name.ok
     \/ ~init_file.ok
     \/ ~ReSearch(initial.init_files[init_file.value])

\* C15: when there is nothing to update, post_prepare of the Python plugin,
\* having written pyproject.toml, leaves every __init__.py as it was, writes
\* no other file, and goes on to its next step, the probe of uv.
C15_NothingToUpdateIsNoOp ==
  (Count(Wrote(<<"pyproject.toml">>)) > 0 /\ NothingToUpdate) =>
    /\ init_files = initial.init_files
    /\ \A i \in 1 .. Len(log) :
         log[i].ev = "write" =>
           log[i].what \in {<<"pyproject.toml">>, <<"package.json">>}
    /\ \E i \in 1 .. (Len(log) - 1) :
         /\ log[i] = Wrote(<<"pyproject.toml">>)
         /\ log[i + 1].ev = "probe"
         /\ log[i + 1].what = <<"uv", "--version">>

\* Prepare is over without failure for a package whose __init__.py holds no
\* literal, while src/__init__.py, a later candidate, holds one.
C15_Witness ==
  /\ pc.phase = "build"
  /\ ~Failed
  /\ UvGetPackageName(initial.pyproject) = Found("cross-docs")
  /\ <<"cross_docs", "__init__.py">> \in DOMAIN initial.init_files
  /\ ~ReSearch(initial.init_files[<<"cross_docs", "__init__.py">>])
  /\ ReSearch(initial.init_files[<<"src", "__init__.py">>])
  /\ init_files = initial.init_files
  /\ UvGetVersion(pyproject) = Found(release_info.version)
  /\ UvGetVersion(initial.pyproject) # Found(release_info.version)

\* C16 as claimed: when the file holds a match, the file after the update is
\* the file before it with new_version as the value of the match found (the
\* first): its quotes, the whitespace around "=", and every other piece of
\* the file are what they were.
C16_OnlyTheQuotedValueChanges ==
  (literal.runs >= 1 /\ ReSearch(literal.original[LiteralPath])) =>
    LET before == literal.original[LiteralPath]
        after == literal.first[LiteralPath]
        found == CHOOSE i \in 1 .. Len(before) :
                   /\ before[i].t = "assign"
                   /\ \A j \in 1 .. (i - 1) : before[j].t # "assign"
    IN /\ Len(after) = Len(before)
       /\ \A i \in 1 .. Len(before) :
            after[i] = IF i = found
                       THEN [before[i] EXCEPT !.value = literal.target]
                       ELSE before[i]

\* post_check of the Python plugin has returned, and no later post_check has
\* assigned previous_version since.
UvCheckReturned ==
  \/ pc.phase = "check" /\ pc.idx = 2 /\ order[1] = "uv_monorepo"
  \/ pc.phase # "check" /\ order[Len(order)] = "uv_monorepo"

\* post_check of the Python plugin has raised.
UvCheckRaised ==
  pc.phase = "check" /\ Failed /\ Plugin = "uv_monorepo"

\* C17 as claimed: the version post_check of the Python plugin reads is
\* tool.poetry.version when pyproject.toml holds it and project.version
\* otherwise; when pyproject.toml holds neither, the read fails with
\* VersionFieldNotFound.
C17_ReadFailsWithVersionFieldNotFound ==
  LET config == initial.pyproject
      poetry == /\ Has(config, "tool")
                /\ Has(config.tool, "poetry")
                /\ Has(config.tool.poetry, "version")
      project == Has(config, "project") /\ Has(config.project, "version")
  IN /\ UvCheckReturned =>
          /\ poetry \/ project
          /\ release_info.previous_version =
               IF poetry THEN config.tool.poetry.version
               ELSE config.project.version
     /\ UvCheckRaised =>
          /\ ~poetry
          /\ ~project
          /\ error.type = "VersionFieldNotFound"

\* C18 as claimed: the probe returns, whatever its command came to, and what
\* it returns is True exactly when the command exited with code 0.
C18_ProbeNeverRaises ==
  availability.state \in {"returned", "raised"} =>
    /\ availability.state = "returned"
    /\ availability.value <=>
         (availability.outcome.kind = "exit" /\ availability.outcome.code = 0)

====
